---- MODULE Spec2Model ----
(***************************************************************************)
(* Model of rodio-synth: the wavetable oscillator and play_song of         *)
(* src/src/composer.rs, and the demo program of src/src/main.rs.           *)
(*                                                                         *)
(* Number representation (all f32 arithmetic the inputs below exercise is  *)
(* exact in f32, so the fixed-point model computes what the code does):    *)
(*   seconds          integer milliseconds, wrapped as F(ms); the f32      *)
(*                    values +inf, -inf and NaN are the records Inf,       *)
(*                    NegInf and NaN                                       *)
(*   frequency        integer, in units of 1/FreqScale Hz                  *)
(*   phase index      integer, in units of 1/IndexScale table entries      *)
(*   table sample     integer, in units of 1/len(table)                    *)
(*   volume           integer percent                                      *)
(***************************************************************************)
EXTENDS Integers, Sequences, FiniteSets, TLC

VARIABLES
    pc,              \* position of the running program
    outcome,         \* "running", "Ok", or the panic that ended the run
    prototracks,     \* play_song's argument
    sine_table, saw_table, square_table, triangle_table, noise_table,
    n,               \* loop counter of main's table loops
    stream,          \* whether the output stream is open
    sinks,           \* main's locals sink and sink2
    tracks,          \* Vec<Track>
    i,               \* index of the track a loop is at (1-based)
    j,               \* index of the note the render loop is at (1-based)
    longest_duration,
    slept,           \* what thread::sleep was called with (None before)
    osc,             \* the oscillator of the oscillator specification
    run              \* that specification's record of the calls made

vars == <<pc, outcome, prototracks, sine_table, saw_table, square_table,
          triangle_table, noise_table, n, stream, sinks, tracks, i, j,
          longest_duration, slept, osc, run>>

tableVars == <<sine_table, saw_table, square_table, triangle_table, noise_table>>
oscVars == <<osc, run>>
idleVars == <<sinks, osc, run>>

----------------------------------------------------------------------------
(* Bounds of the model *)

MaxTracks == 2
MaxNotes == 2
MaxOscLen == 8
MaxRetunes == 2
MaxStep == 4

(* Program constants *)

SAMPLE_RATE == 44100
VOL_MULTIPLIER == 50
wave_table_size == 128
main_wave_table_size == 64

(* Fixed-point scales of the model *)

IndexScale == 2 * 2
FreqScale == 2 * 64

----------------------------------------------------------------------------
(* f32 values *)

F(v) == [k |-> "fin", v |-> v]
Inf == [k |-> "inf", v |-> 0]
NegInf == [k |-> "ninf", v |-> 0]
NaN == [k |-> "nan", v |-> 0]
None == [k |-> "none", v |-> 0]

\* a / b for an integer a > 0 that b divides, or b = 0
FDivInt(a, b) == IF b = 0 THEN Inf ELSE F(a \div b)

\* beats * x, for an integer number of beats
FMulInt(beats, x) ==
    IF x.k = "nan" THEN NaN
    ELSE IF x.k = "fin" THEN F(beats * x.v)
    ELSE IF beats = 0 THEN NaN
    ELSE IF (beats > 0) = (x.k = "inf") THEN Inf ELSE NegInf

FAdd(a, b) ==
    IF a.k = "nan" \/ b.k = "nan" THEN NaN
    ELSE IF a.k = "fin" /\ b.k = "fin" THEN F(a.v + b.v)
    ELSE IF a.k = "fin" THEN b
    ELSE IF b.k = "fin" \/ a.k = b.k THEN a
    ELSE NaN

FGt(a, b) ==
    /\ a.k # "nan" /\ b.k # "nan"
    /\ \/ a.k = "inf" /\ b.k # "inf"
       \/ b.k = "ninf" /\ a.k # "ninf"
       \/ a.k = "fin" /\ b.k = "fin" /\ a.v > b.v

\* Duration::from_secs_f32 panics on a negative, infinite or NaN argument
FromSecsOk(x) == x.k = "fin" /\ x.v >= 0

\* f32 `%`: the remainder has the sign of the dividend
TruncRem(a, m) == IF a >= 0 THEN a % m ELSE -((-a) % m)

----------------------------------------------------------------------------
(* Wave tables: entry n (0-based) of a table of size N, in units of 1/N *)

\* sign of (2 pi n / N).sin() in f32; at n = N/2 the argument is the f32
\* nearest pi, which lies above pi, so the f32 sine is negative there
SinNonNeg(k, N) == 2 * k < N

\* (2 pi n / N).sin(), by Bhaskara's rational approximation of the sine,
\* rounded to the grid (the entries at n = 0 and n = N/2 round to 0)
SineEntry(k, N) ==
    LET h == N \div 2
        m == IF 2 * k < N THEN k ELSE k - h
        v == IF h = 0 THEN 0 ELSE (16 * m * (h - m) * N) \div (5 * h * h - 4 * m * (h - m))
    IN IF 2 * k < N THEN v ELSE -v

SawEntry(k, N) == -N + 2 * k

SquareEntry(k, N) == IF SinNonNeg(k, N) THEN N ELSE -N

TriangleEntry(k, N) == IF k < N \div 2 THEN -N + 2 * k * 2 ELSE 3 * N - 2 * k * 2

\* (rng.gen::<f32>() * 2.00) - 1.00: a value in [-1, 1) drawn from the
\* generator, which the model seeds from Seeds
Seeds == {0, 1}

NoiseEntry(seed, k, N) == ((seed * 37 + k * 53 + k * k * 7) % (2 * N)) - N

\* the table a loop `for n in lo..N { table.push(entry(n)) }` builds
SineTable(lo, N) == [k \in 1..(N - lo) |-> SineEntry(lo + k - 1, N)]
SawTable(N) == [k \in 1..N |-> SawEntry(k - 1, N)]
SquareTable(N) == [k \in 1..N |-> SquareEntry(k - 1, N)]
TriangleTable(N) == [k \in 1..N |-> TriangleEntry(k - 1, N)]
NoiseTable(seed, N) == [k \in 1..N |-> NoiseEntry(seed, k - 1, N)]

----------------------------------------------------------------------------
(* WavetableOscillator *)

OscNew(sample_rate, wave_table) ==
    [sample_rate |-> sample_rate, wave_table |-> wave_table,
     index |-> 0, index_increment |-> 0]

IncrementOf(frequency, len, sample_rate) ==
    LET num == frequency * len * IndexScale
        den == sample_rate * FreqScale
    IN IF num >= 0 THEN num \div den ELSE -((-num) \div den)

SetFrequency(o, frequency) ==
    [o EXCEPT !.index_increment =
        IncrementOf(frequency, Len(o.wave_table), o.sample_rate)]

\* `self.index as usize`: truncates, and saturates to 0 below 0
AsUsize(index) == IF index < 0 THEN 0 ELSE index \div IndexScale

TruncatedIndex(o) == AsUsize(o.index)
NextIndex(o) == (TruncatedIndex(o) + 1) % Len(o.wave_table)

\* the sample, in units of 1/(IndexScale * len)
Lerp(o) ==
    LET next_index_weight == o.index - TruncatedIndex(o) * IndexScale
        truncated_index_weight == IndexScale - next_index_weight
    IN truncated_index_weight * o.wave_table[TruncatedIndex(o) + 1]
       + next_index_weight * o.wave_table[NextIndex(o) + 1]

Advance(o) == TruncRem(o.index + o.index_increment, Len(o.wave_table) * IndexScale)

GetSample(o) == [sample |-> Lerp(o), osc |-> [o EXCEPT !.index = Advance(o)]]

\* the phase index after `count` calls of get_sample
PhaseAfter(o, count) ==
    TruncRem(o.index + o.index_increment * count, Len(o.wave_table) * IndexScale)

----------------------------------------------------------------------------
(* The inputs of play_song *)

Instruments == {"Sine", "Saw", "Square", "Triangle", "Snare", "Kick"}

\* the instruments the model lets the track at position t play: one with a
\* closed-form table, one with the noise table
InstrumentPairs == <<{"Sine", "Snare"}, {"Saw", "Kick"}, {"Square", "Triangle"}>>
InstrumentsAt(t) == InstrumentPairs[((t - 1) % Len(InstrumentPairs)) + 1]

\* pitches on the grid where the phase increment is exact: multiples of
\* SAMPLE_RATE / (wave_table_size * IndexScale) Hz; durations in whole beats
PitchOf(step) == (step * SAMPLE_RATE * FreqScale) \div (wave_table_size * IndexScale)

Notes == {[pitch |-> PitchOf(1), duration |-> 1], [pitch |-> PitchOf(3), duration |-> 2]}

Tempos == {0, 120}

NoteSeqs == UNION {[1..len -> Notes] : len \in 0..MaxNotes}

Scores == [notes : NoteSeqs, tempo : Tempos]

RECURSIVE TotalNotes(_)
TotalNotes(song) ==
    IF song = <<>> THEN 0 ELSE Len(Head(song).notes) + TotalNotes(Tail(song))

\* at most MaxTracks tracks, holding at most MaxNotes notes between them
ScoreLists == {scores \in UNION {[1..len -> Scores] : len \in 0..MaxTracks} :
                  TotalNotes(scores) <= MaxNotes}

Songs == UNION {
    {[t \in 1..Len(scores) |->
        [instrument |-> instruments[t], notes |-> scores[t].notes, tempo |-> scores[t].tempo]]
     : instruments \in {choice \in [1..Len(scores) -> Instruments] :
                            \A t \in 1..Len(scores) : choice[t] \in InstrumentsAt(t)}}
    : scores \in ScoreLists}

----------------------------------------------------------------------------
(* The audio backend, as play_song and main use it *)

\* Sink::try_new: a sink nothing has been appended to and on which neither
\* pause nor play has been called
SinkNew == [state |-> "new", volume |-> 100, queue |-> <<>>, played |-> <<>>]

SinkPlay(sink) == [sink EXCEPT !.state = "playing"]

SinkPauseAsPlay(sink) == [sink EXCEPT !.state = "playing"]

SinkPause(sink) == [sink EXCEPT !.state = "paused"]

SinkSetVolume(sink, volume) == [sink EXCEPT !.volume = volume]

SinkPrepend(sink, segment) == [sink EXCEPT !.queue = <<segment>> \o @]

SinkAppend(sink, segment) == [sink EXCEPT !.queue = Append(@, segment)]

\* source.take_duration(d): the first d of the source's samples
TakeDuration(source, duration) == [source |-> source, duration |-> duration]

\* the number of samples a segment of `ms` milliseconds holds
SampleCount(o, ms) == (ms * (o.sample_rate \div 100)) \div 10

----------------------------------------------------------------------------
(* play_song *)

TrackNew(oscillator, sink, notes, tempo) ==
    [oscillator |-> oscillator, sink |-> sink, notes |-> notes,
     volume |-> 100, duration |-> F(0), tempo |-> tempo]

TableFor(instrument) ==
    CASE instrument = "Sine" -> sine_table
      [] instrument = "Saw" -> saw_table
      [] instrument = "Square" -> square_table
      [] instrument = "Triangle" -> triangle_table
      [] instrument = "Snare" -> noise_table
      [] instrument = "Kick" -> noise_table

NoteSecsNoTempo(note, tempo) == F(note.duration * 1000)

\* note.duration * (60.0 / track.tempo as f32)
NoteSecs(note, tempo) == FMulInt(note.duration, FDivInt(60 * 1000, tempo))

LongestLast(longest, duration) == duration

LongestAfter(longest, duration) == IF FGt(duration, longest) THEN duration ELSE longest

OscAfterNoteContinuing(o, note, secs) ==
    LET tuned == SetFrequency(o, note.pitch)
    IN [tuned EXCEPT !.index = PhaseAfter(tuned, SampleCount(tuned, secs.v))]

\* the track's oscillator after a note: only its frequency is set, the
\* samples are pulled from a clone
OscAfterNote(o, note, secs) == SetFrequency(o, note.pitch)

Init ==
    /\ pc = "sine"
    /\ outcome = "running"
    /\ prototracks \in Songs
    /\ sine_table = <<>> /\ saw_table = <<>> /\ square_table = <<>>
    /\ triangle_table = <<>> /\ noise_table = <<>>
    /\ n = 0
    /\ stream = FALSE
    /\ sinks = <<>>
    /\ tracks = <<>>
    /\ i = 0 /\ j = 0
    /\ longest_duration = F(0)
    /\ slept = None
    /\ osc = OscNew(SAMPLE_RATE, <<0>>)
    /\ run = <<>>

Running(at) == pc = at /\ outcome = "running"

FillSine ==
    /\ Running("sine")
    /\ sine_table' = SineTable(0, wave_table_size)
    /\ pc' = "saw"
    /\ UNCHANGED <<outcome, prototracks, saw_table, square_table, triangle_table,
                   noise_table, n, stream, tracks, i, j, longest_duration, slept, idleVars>>

FillSaw ==
    /\ Running("saw")
    /\ saw_table' = SawTable(wave_table_size)
    /\ pc' = "square"
    /\ UNCHANGED <<outcome, prototracks, sine_table, square_table, triangle_table,
                   noise_table, n, stream, tracks, i, j, longest_duration, slept, idleVars>>

FillSquare ==
    /\ Running("square")
    /\ square_table' = SquareTable(wave_table_size)
    /\ pc' = "triangle"
    /\ UNCHANGED <<outcome, prototracks, sine_table, saw_table, triangle_table,
                   noise_table, n, stream, tracks, i, j, longest_duration, slept, idleVars>>

FillTriangle ==
    /\ Running("triangle")
    /\ triangle_table' = TriangleTable(wave_table_size)
    /\ pc' = "noise"
    /\ UNCHANGED <<outcome, prototracks, sine_table, saw_table, square_table,
                   noise_table, n, stream, tracks, i, j, longest_duration, slept, idleVars>>

FillNoise ==
    /\ Running("noise")
    /\ \E seed \in Seeds : noise_table' = NoiseTable(seed, wave_table_size)
    /\ pc' = "stream"
    /\ UNCHANGED <<outcome, prototracks, sine_table, saw_table, square_table,
                   triangle_table, n, stream, tracks, i, j, longest_duration, slept, idleVars>>

\* where the program is once the render loop has left track `at`
AfterRender(at) ==
    IF at < Len(prototracks) THEN <<"render", at + 1, 0>> ELSE <<"start", 1, 0>>

\* where the program is once the start loop has left track `at`
AfterStart(at) ==
    IF at < Len(prototracks) THEN <<"start", at + 1, 0>> ELSE <<"sleep", 0, 0>>

\* where the program is once the build loop has left proto `at`
AfterBuild(at) ==
    IF at < Len(prototracks) THEN <<"build", at + 1, 0>>
    ELSE IF Len(prototracks) = 0 THEN <<"sleep", 0, 0>>
    ELSE <<"render", 1, 0>>

Goto(position) == pc' = position[1] /\ i' = position[2] /\ j' = position[3]

\* OutputStream::try_default().unwrap()
OpenStream ==
    /\ Running("stream")
    /\ \E ok \in BOOLEAN :
        IF ok
        THEN /\ stream' = TRUE
             /\ Goto(AfterBuild(0))
             /\ UNCHANGED outcome
        ELSE /\ outcome' = "PanicStream"
             /\ UNCHANGED <<pc, i, j, stream>>
    /\ UNCHANGED <<prototracks, tableVars, n, tracks, longest_duration, slept, idleVars>>

\* one iteration of `for proto in prototracks.iter()`
BuildTrack ==
    /\ Running("build")
    /\ \E ok \in BOOLEAN :
        IF ok
        THEN /\ tracks' = Append(tracks,
                    TrackNew(OscNew(SAMPLE_RATE, TableFor(prototracks[i].instrument)),
                             SinkNew, prototracks[i].notes, prototracks[i].tempo))
             /\ Goto(AfterBuild(i))
             /\ UNCHANGED outcome
        ELSE /\ outcome' = "PanicSink"
             /\ UNCHANGED <<pc, i, j, tracks>>
    /\ UNCHANGED <<prototracks, tableVars, n, stream, longest_duration, slept, idleVars>>

\* lines 204-206 of the render loop: the track's prologue
RenderBegin ==
    /\ Running("render") /\ j = 0
    /\ tracks' = [tracks EXCEPT ![i] =
            [@ EXCEPT !.duration = F(0),
                      !.sink = SinkSetVolume(SinkPause(@), VOL_MULTIPLIER)]]
    /\ Goto(IF Len(tracks[i].notes) = 0 THEN AfterRender(i) ELSE <<"render", i, 1>>)
    /\ UNCHANGED <<outcome, prototracks, tableVars, n, stream, longest_duration,
                   slept, idleVars>>

\* lines 208-210: one iteration of `for note in track.notes.iter()`
RenderNote ==
    /\ Running("render") /\ j > 0
    /\ LET track == tracks[i]
           note == track.notes[j]
           secs == NoteSecs(note, track.tempo)
           tuned == SetFrequency(track.oscillator, note.pitch)
           accumulated == [track EXCEPT !.duration = FAdd(@, secs),
                                        !.oscillator = tuned]
       IN IF FromSecsOk(secs)
          THEN /\ tracks' = [tracks EXCEPT ![i] =
                      [accumulated EXCEPT
                          !.oscillator = OscAfterNote(track.oscillator, note, secs),
                          !.sink = SinkAppend(@, TakeDuration(tuned, secs.v))]]
               /\ Goto(IF j < Len(track.notes) THEN <<"render", i, j + 1>>
                       ELSE AfterRender(i))
               /\ UNCHANGED outcome
          ELSE /\ tracks' = [tracks EXCEPT ![i] = accumulated]
               /\ outcome' = "PanicDuration"
               /\ UNCHANGED <<pc, i, j>>
    /\ UNCHANGED <<prototracks, tableVars, n, stream, longest_duration, slept, idleVars>>

\* one iteration of the loop of lines 217-220
StartTrack ==
    /\ Running("start")
    /\ tracks' = [tracks EXCEPT ![i].sink = SinkPlay(@)]
    /\ longest_duration' = LongestAfter(longest_duration, tracks[i].duration)
    /\ Goto(AfterStart(i))
    /\ UNCHANGED <<outcome, prototracks, tableVars, n, stream, slept, idleVars>>

\* std::thread::sleep(Duration::from_secs_f32(longest_duration))
Sleep ==
    /\ Running("sleep")
    /\ IF FromSecsOk(longest_duration)
       THEN /\ slept' = longest_duration
            /\ pc' = "return"
            /\ UNCHANGED outcome
       ELSE /\ outcome' = "PanicDuration"
            /\ UNCHANGED <<pc, slept>>
    /\ UNCHANGED <<prototracks, tableVars, n, stream, tracks, i, j,
                   longest_duration, idleVars>>

\* Ok(..): the stream and the sinks are dropped
Return ==
    /\ Running("return")
    /\ outcome' = "Ok"
    /\ stream' = FALSE
    /\ UNCHANGED <<pc, prototracks, tableVars, n, tracks, i, j,
                   longest_duration, slept, idleVars>>

\* the backend takes the next segment of a sink that is not paused
Drain ==
    /\ outcome = "running" /\ stream
    /\ \E t \in 1..Len(tracks) :
        /\ tracks[t].sink.state # "paused"
        /\ tracks[t].sink.queue # <<>>
        /\ tracks' = [tracks EXCEPT ![t].sink =
                [@ EXCEPT !.queue = Tail(@),
                          !.played = Append(@, Head(tracks[t].sink.queue))]]
    /\ UNCHANGED <<pc, outcome, prototracks, tableVars, n, stream, i, j,
                   longest_duration, slept, idleVars>>

Next ==
    \/ FillSine \/ FillSaw \/ FillSquare \/ FillTriangle \/ FillNoise
    \/ OpenStream \/ BuildTrack \/ RenderBegin \/ RenderNote
    \/ StartTrack \/ Sleep \/ Return \/ Drain

Spec == Init /\ [][Next]_vars

----------------------------------------------------------------------------
(* The oscillator on its own: any interleaving of set_frequency and          *)
(* get_sample on an oscillator over a saw table of 2..MaxOscLen entries      *)

\* the frequency whose phase increment over a table of `len` entries is
\* `step` / IndexScale entries per sample
FreqFor(step, len) == (step * SAMPLE_RATE * FreqScale) \div (len * IndexScale)

\* a quarter entry back and forth, a whole entry back, 1..MaxStep entries forth
IncSteps == {-IndexScale, -1, 1} \cup {IndexScale * s : s \in 1..MaxStep}

RunFrom(o, retunes) ==
    [start |-> o.index, first |-> Lerp(o), calls |-> 0, retunes |-> retunes,
     read |-> <<>>]

InitOsc ==
    /\ pc = "osc"
    /\ outcome = "running"
    /\ prototracks = <<>>
    /\ sine_table = <<>> /\ saw_table = <<>> /\ square_table = <<>>
    /\ triangle_table = <<>> /\ noise_table = <<>>
    /\ n = 0
    /\ stream = FALSE
    /\ sinks = <<>>
    /\ tracks = <<>>
    /\ i = 0 /\ j = 0
    /\ longest_duration = F(0)
    /\ slept = None
    /\ \E len \in 2..MaxOscLen : osc = OscNew(SAMPLE_RATE, SawTable(len))
    /\ run = RunFrom(osc, 0)

progVars == <<pc, outcome, prototracks, tableVars, n, stream, sinks, tracks, i, j,
              longest_duration, slept>>

OscSetFrequency ==
    /\ run.retunes < MaxRetunes
    /\ \E step \in IncSteps :
        osc' = SetFrequency(osc, FreqFor(step, Len(osc.wave_table)))
    /\ run' = RunFrom(osc', run.retunes + 1)
    /\ UNCHANGED progVars

\* at most one period's worth of calls after each set_frequency
OscGetSample ==
    /\ run.calls < Len(osc.wave_table)
    /\ osc' = GetSample(osc).osc
    /\ run' = [run EXCEPT !.calls = @ + 1,
                          !.read = <<TruncatedIndex(osc), NextIndex(osc)>>]
    /\ UNCHANGED progVars

NextOsc == OscSetFrequency \/ OscGetSample

SpecOsc == InitOsc /\ [][NextOsc]_vars

----------------------------------------------------------------------------
(* main *)

\* Note { pitch, duration }: the pitch rounded to the 1/FreqScale Hz grid,
\* the duration (seconds, in main) in milliseconds
triangle_notes ==
    <<[pitch |-> 33489, duration |-> 500], [pitch |-> 37588, duration |-> 500],
      [pitch |-> 42193, duration |-> 500], [pitch |-> 44701, duration |-> 500],
      [pitch |-> 42193, duration |-> 500], [pitch |-> 37588, duration |-> 500]>>

sine_notes ==
    <<[pitch |-> 33489, duration |-> 1500], [pitch |-> 37588, duration |-> 1500]>>

InitMain ==
    /\ pc = "m_sine"
    /\ outcome = "running"
    /\ prototracks = <<>>
    /\ sine_table = <<>> /\ saw_table = <<>> /\ square_table = <<>>
    /\ triangle_table = <<>> /\ noise_table = <<>>
    /\ n = 1
    /\ stream = FALSE
    /\ sinks = <<>>
    /\ tracks = <<>>
    /\ i = 0 /\ j = 0
    /\ longest_duration = F(0)
    /\ slept = None
    /\ osc = OscNew(SAMPLE_RATE, <<0>>)
    /\ run = <<>>

\* the loop `for n in lo..wave_table_size` after the iteration at n: the
\* next iteration, or the loop after it, which starts at 0
LoopStep(next) ==
    IF n + 1 < main_wave_table_size
    THEN pc' = pc /\ n' = n + 1
    ELSE pc' = next /\ n' = 0

MainPushSine ==
    /\ Running("m_sine")
    /\ sine_table' = Append(sine_table, SineEntry(n, main_wave_table_size))
    /\ LoopStep("m_saw")
    /\ UNCHANGED <<outcome, prototracks, saw_table, square_table, triangle_table,
                   noise_table, stream, sinks, tracks, i, j, longest_duration,
                   slept, oscVars>>

MainPushSaw ==
    /\ Running("m_saw")
    /\ saw_table' = Append(saw_table, SawEntry(n, main_wave_table_size))
    /\ LoopStep("m_square")
    /\ UNCHANGED <<outcome, prototracks, sine_table, square_table, triangle_table,
                   noise_table, stream, sinks, tracks, i, j, longest_duration,
                   slept, oscVars>>

MainPushSquare ==
    /\ Running("m_square")
    /\ square_table' = Append(square_table, SquareEntry(n, main_wave_table_size))
    /\ LoopStep("m_triangle")
    /\ UNCHANGED <<outcome, prototracks, sine_table, saw_table, triangle_table,
                   noise_table, stream, sinks, tracks, i, j, longest_duration,
                   slept, oscVars>>

MainPushTriangle ==
    /\ Running("m_triangle")
    /\ triangle_table' = Append(triangle_table, TriangleEntry(n, main_wave_table_size))
    /\ LoopStep("m_stream")
    /\ UNCHANGED <<outcome, prototracks, sine_table, saw_table, square_table,
                   noise_table, stream, sinks, tracks, i, j, longest_duration,
                   slept, oscVars>>

\* OutputStream::try_default().unwrap()
MainOpenStream ==
    /\ Running("m_stream")
    /\ \E ok \in BOOLEAN :
        IF ok
        THEN stream' = TRUE /\ pc' = "m_sink" /\ UNCHANGED outcome
        ELSE outcome' = "PanicStream" /\ UNCHANGED <<pc, stream>>
    /\ UNCHANGED <<prototracks, tableVars, n, sinks, tracks, i, j, longest_duration,
                   slept, oscVars>>

\* Sink::try_new(&stream_handle).unwrap(), for sink and then for sink2
MainNewSink ==
    /\ Running("m_sink")
    /\ \E ok \in BOOLEAN :
        IF ok
        THEN /\ sinks' = Append(sinks, SinkNew)
             /\ pc' = IF Len(sinks) = 0 THEN "m_sink" ELSE "m_tracks"
             /\ UNCHANGED outcome
        ELSE outcome' = "PanicSink" /\ UNCHANGED <<pc, sinks>>
    /\ UNCHANGED <<prototracks, tableVars, n, stream, tracks, i, j, longest_duration,
                   slept, oscVars>>

MainTrack(oscillator, sink, notes) ==
    [oscillator |-> oscillator, sink |-> sink, volume |-> 32, notes |-> notes]

\* lines 175-191: the two oscillators and the tracks
MainBuildTracks ==
    /\ Running("m_tracks")
    /\ LET sine_oscillator == OscNew(SAMPLE_RATE, saw_table)
           triangle_oscillator == OscNew(SAMPLE_RATE, square_table)
       IN tracks' = <<MainTrack(triangle_oscillator, sinks[1], triangle_notes),
                      MainTrack(sine_oscillator, sinks[2], sine_notes)>>
    /\ sinks' = <<>>
    /\ pc' = "m_render" /\ i' = 1 /\ j' = 0
    /\ UNCHANGED <<outcome, prototracks, tableVars, n, stream, longest_duration,
                   slept, oscVars>>

\* line 194
MainRenderBegin ==
    /\ Running("m_render") /\ j = 0
    /\ tracks' = [tracks EXCEPT ![i].sink =
            SinkSetVolume(@, (tracks[i].volume * VOL_MULTIPLIER) \div 100)]
    /\ j' = 1
    /\ UNCHANGED <<pc, outcome, prototracks, tableVars, n, stream, sinks, i,
                   longest_duration, slept, oscVars>>

\* lines 196-197
MainRenderNote ==
    /\ Running("m_render") /\ j > 0
    /\ LET track == tracks[i]
           note == track.notes[j]
           tuned == SetFrequency(track.oscillator, note.pitch)
       IN tracks' = [tracks EXCEPT ![i] =
                [track EXCEPT !.oscillator = tuned,
                              !.sink = SinkAppend(@, TakeDuration(tuned, note.duration))]]
    /\ IF j < Len(tracks[i].notes) THEN pc' = pc /\ i' = i /\ j' = j + 1
       ELSE IF i < Len(tracks) THEN pc' = pc /\ i' = i + 1 /\ j' = 0
       ELSE pc' = "m_sleep" /\ i' = 0 /\ j' = 0
    /\ UNCHANGED <<outcome, prototracks, tableVars, n, stream, sinks,
                   longest_duration, slept, oscVars>>

\* std::thread::sleep(Duration::from_secs(3))
MainSleep ==
    /\ Running("m_sleep")
    /\ slept' = F(3 * 1000)
    /\ pc' = "m_return"
    /\ UNCHANGED <<outcome, prototracks, tableVars, n, stream, sinks, tracks, i, j,
                   longest_duration, oscVars>>

MainReturn ==
    /\ Running("m_return")
    /\ outcome' = "Ok"
    /\ stream' = FALSE
    /\ UNCHANGED <<pc, prototracks, tableVars, n, sinks, tracks, i, j,
                   longest_duration, slept, oscVars>>

NextMain ==
    \/ MainPushSine \/ MainPushSaw \/ MainPushSquare \/ MainPushTriangle
    \/ MainOpenStream \/ MainNewSink \/ MainBuildTracks
    \/ MainRenderBegin \/ MainRenderNote \/ MainSleep \/ MainReturn \/ Drain

SpecMain == InitMain /\ [][NextMain]_vars

----------------------------------------------------------------------------
(* Properties *)

Panics == {"PanicStream", "PanicSink", "PanicDuration"}

SongOrder == <<"sine", "saw", "square", "triangle", "noise", "stream", "build",
               "render", "start", "sleep", "return">>

MainOrder == <<"m_sine", "m_saw", "m_square", "m_triangle", "m_stream", "m_sink",
               "m_tracks", "m_render", "m_sleep", "m_return">>

\* the program is at a position of `order` after `at`
Past(order, at) ==
    \E a, b \in 1..Len(order) : order[a] = at /\ order[b] = pc /\ a < b

\* the render loop of play_song has finished track t
Rendered(t) ==
    /\ t \in 1..Len(tracks)
    /\ Past(SongOrder, "render") \/ (pc = "render" /\ t < i)

\* every segment appended to track t's sink, the played ones first
Segments(t) == tracks[t].sink.played \o tracks[t].sink.queue

\* the phase index the segment's source has reached when the segment ends
EndPhase(segment) ==
    PhaseAfter(segment.source, SampleCount(segment.source, segment.duration))

\* note.duration * 60 / tempo seconds, in milliseconds
ExpectedSecs(note, tempo) == (note.duration * 60 * 1000) \div tempo

RECURSIVE SumSecs(_, _)
SumSecs(notes, tempo) ==
    IF notes = <<>> THEN 0
    ELSE ExpectedSecs(Head(notes), tempo) + SumSecs(Tail(notes), tempo)

BadTempo == \E t \in 1..Len(prototracks) : prototracks[t].tempo <= 0

AnyPlaying == \E t \in 1..Len(tracks) : tracks[t].sink.state = "playing"
AllPlaying == \A t \in 1..Len(tracks) : tracks[t].sink.state = "playing"

\* C1, as claimed: the segment rendered for note k+1 begins at the phase the
\* segment rendered for note k ended at
C1_PhaseContinuesAcrossNotes ==
    \A t \in 1..Len(tracks) : \A k \in 1..(Len(Segments(t)) - 1) :
        Segments(t)[k + 1].source.index = EndPhase(Segments(t)[k])

\* C1, amended: every segment of every track begins at phase index 0, the
\* phase index of the track's own oscillator, which rendering never advances
C1_EverySegmentStartsAtPhaseZero ==
    \A t \in 1..Len(tracks) :
        /\ tracks[t].oscillator.index = 0
        /\ \A k \in 1..Len(Segments(t)) : Segments(t)[k].source.index = 0

C1_Witness ==
    \E t \in 1..Len(tracks) :
        /\ Rendered(t)
        /\ Len(Segments(t)) >= 2
        /\ EndPhase(Segments(t)[1]) # 0
        /\ Segments(t)[2].source.index = 0

\* C2: with a tempo of 0 (or less) in the input, play_song fails with a
\* ConfigurationError: it neither succeeds nor panics, and no track's duration
\* is infinite, NaN or negative
C2_TempoZeroIsConfigurationError ==
    BadTempo =>
        /\ outcome \notin {"Ok", "PanicDuration"}
        /\ \A t \in 1..Len(tracks) : FromSecsOk(tracks[t].duration)

CoordState ==
    IF outcome = "Ok" THEN "Complete"
    ELSE IF pc \in {"sleep", "return"} THEN "Playing"
    ELSE "Scheduled"

MaxDuration ==
    LET ms == {tracks[t].duration.v : t \in 1..Len(tracks)} \cup {0}
    IN CHOOSE longest \in ms : \A other \in ms : other <= longest

C3_States ==
    /\ CoordState = "Playing" =>
        /\ Len(tracks) = Len(prototracks)
        /\ AllPlaying
        /\ \A t \in 1..Len(tracks) : tracks[t].duration.k = "fin"
        /\ longest_duration = F(MaxDuration)
    /\ slept # None => slept = F(MaxDuration)
    /\ outcome = "Ok" => slept # None /\ AllPlaying

C3_Step ==
    <<CoordState, CoordState'>> \in
        {<<"Scheduled", "Scheduled">>, <<"Scheduled", "Playing">>,
         <<"Playing", "Playing">>, <<"Playing", "Complete">>,
         <<"Complete", "Complete">>}

\* C3: play_song goes Scheduled -> Playing -> Complete in that order, and
\* succeeds only after sleeping for the maximum of the tracks' durations
\* (0 without tracks), with every sink started
C3_ScheduledPlayingComplete == [](C3_States) /\ [][C3_Step]_vars

C3_Witness ==
    /\ outcome = "Ok"
    /\ Len(tracks) = 2
    /\ tracks[2].duration.v > 0
    /\ tracks[1].duration.v > tracks[2].duration.v
    /\ slept = tracks[1].duration

\* C4: a rendered track with tempo > 0 has as duration the sum over its notes
\* of note.duration * 60 / tempo; a track without notes has duration 0 and
\* rendering it is not an error
C4_DurationIsSumOfNoteSeconds ==
    /\ \A t \in 1..Len(tracks) :
        Rendered(t) =>
            /\ tracks[t].tempo > 0 =>
                  tracks[t].duration = F(SumSecs(tracks[t].notes, tracks[t].tempo))
            /\ tracks[t].notes = <<>> => tracks[t].duration = F(0)
    /\ (outcome = "PanicDuration" /\ pc = "render") => tracks[i].notes # <<>>

C4_Witness ==
    \E t, u \in 1..Len(tracks) :
        /\ Rendered(t) /\ Rendered(u)
        /\ tracks[t].tempo = 120
        /\ Len(tracks[t].notes) = 1 /\ tracks[t].notes[1].duration = 2
        /\ tracks[t].duration = F(1000)
        /\ tracks[u].notes = <<>> /\ tracks[u].duration = F(0)

\* C5: with a bad tempo in the input, the error is detected before the first
\* sink is created: no track (and so no sink) is ever built, and no sink plays
C5_BadTempoDetectedBeforeAnySink ==
    BadTempo =>
        /\ tracks = <<>>
        /\ ~AnyPlaying
        /\ outcome # "Ok"

C7_EveryTableHasNEntries ==
    /\ Past(SongOrder, "sine") => Len(sine_table) = wave_table_size
    /\ Past(SongOrder, "saw") => Len(saw_table) = wave_table_size
    /\ Past(SongOrder, "square") => Len(square_table) = wave_table_size
    /\ Past(SongOrder, "triangle") => Len(triangle_table) = wave_table_size
    /\ Past(SongOrder, "noise") => Len(noise_table) = wave_table_size
    /\ Past(MainOrder, "m_sine") => Len(sine_table) = main_wave_table_size
    /\ Past(MainOrder, "m_saw") => Len(saw_table) = main_wave_table_size
    /\ Past(MainOrder, "m_square") => Len(square_table) = main_wave_table_size
    /\ Past(MainOrder, "m_triangle") => Len(triangle_table) = main_wave_table_size

\* C8: with a phase increment of a whole number s of entries that divides the
\* table length N, N/s calls of get_sample from any whole phase index bring
\* the phase index back, and the next sample equals the first
C8_PeriodicAfterNOverSCalls ==
    LET len == Len(osc.wave_table)
        s == osc.index_increment \div IndexScale
    IN (/\ osc.index_increment > 0
        /\ osc.index_increment % IndexScale = 0
        /\ len % s = 0
        /\ run.start % IndexScale = 0
        /\ run.calls = len \div s)
       => (osc.index = run.start /\ Lerp(osc) = run.first)

\* C9: a rendered track's sink holds one segment per note, in note order,
\* segment k with the frequency of note k and of note k's length, and the
\* segments played are the first ones of that order
C9_OneSegmentPerNoteInOrder ==
    \A t \in 1..Len(tracks) :
        Rendered(t) =>
            /\ Len(Segments(t)) = Len(tracks[t].notes)
            /\ \A k \in 1..Len(Segments(t)) :
                /\ PitchOf(Segments(t)[k].source.index_increment) = tracks[t].notes[k].pitch
                /\ Segments(t)[k].duration = ExpectedSecs(tracks[t].notes[k], tracks[t].tempo)

C9_Witness ==
    \E t \in 1..Len(tracks) :
        /\ Rendered(t)
        /\ Len(tracks[t].notes) = 2
        /\ tracks[t].notes[1] # tracks[t].notes[2]
        /\ Len(tracks[t].sink.played) = 1
        /\ Len(tracks[t].sink.queue) = 1

\* C10: whatever frequencies are set, the phase index stays in [0, N) and
\* the table is read at indices in 0..N-1
C10_PhaseIndexInRange ==
    /\ 0 <= osc.index
    /\ osc.index < Len(osc.wave_table) * IndexScale
    /\ \A k \in 1..Len(run.read) : run.read[k] \in 0..(Len(osc.wave_table) - 1)

====
